---- MODULE Spec2Model ----
(***************************************************************************)
(* Model of src/logreg/logreg.py: class LogisticRegression.               *)
(*                                                                         *)
(* Real numbers are fixed-point integers counted in hundredths: the value  *)
(* v stands for v/100.  The threshold candidates float(k)/100.0 of         *)
(* __calc_best_th are then the integers 0..100, and the comparison         *)
(* p >= k/100 of a probability p is exact on floor(100*p).                 *)
(* Text (file lines, formatted numbers) is a sequence of one-character     *)
(* strings.  A Python attribute that may be None is <<>> when it is None   *)
(* and <<v>> when it holds the value v.                                    *)
(***************************************************************************)
EXTENDS Integers, Sequences, FiniteSets, TLC

(***************************************************************************)
(* Bounds of the model.                                                    *)
(***************************************************************************)
MaxLines == 3       \* non-blank lines after the header of an input file

(***************************************************************************)
(* Python values.                                                          *)
(***************************************************************************)
None == <<>>
Some(v) == <<v>>
IsNone(x) == x = None
Val(x) == x[1]

Abs(x) == IF x < 0 THEN -x ELSE x

\* The exceptions the code raises.  LogRegError carries one of five
\* messages; the names are those of the error taxonomy, the values are the
\* messages of the code.
NotFittedError == "Parameters have not been specified!"
InvalidInputError == "Input data are wrong!"
InvalidTrainingDataError == "Train data are wrong!"
InvalidHyperparameterError == "Train parameters are wrong!"
CorruptFileError == "Parameters cannot be loaded from a file!"
ValueError == "ValueError"
ZeroDivisionError == "ZeroDivisionError"
TypeError == "TypeError"
Ok == "ok"

(***************************************************************************)
(* Text: str.strip, str.split, str.lower, int(), float(), str.format.      *)
(***************************************************************************)
NL == "\n"
Digits == <<"0", "1", "2", "3", "4", "5", "6", "7", "8", "9">>
IsSpace(c) == c \in {" ", NL, "\t"}
IsDigit(c) == \E i \in 1..10 : Digits[i] = c
DigitVal(c) == (CHOOSE i \in 1..10 : Digits[i] = c) - 1

RECURSIVE LStrip(_)
LStrip(s) == IF s # <<>> /\ IsSpace(Head(s)) THEN LStrip(Tail(s)) ELSE s

RECURSIVE RStrip(_)
RStrip(s) ==
    IF s # <<>> /\ IsSpace(s[Len(s)]) THEN RStrip(SubSeq(s, 1, Len(s) - 1)) ELSE s

\* str.strip()
Strip(s) == RStrip(LStrip(s))

\* str.split(): the maximal runs of non-space characters, in order.
RECURSIVE SplitFrom(_, _, _)
SplitFrom(s, cur, acc) ==
    IF s = <<>>
    THEN IF cur = <<>> THEN acc ELSE Append(acc, cur)
    ELSE IF IsSpace(Head(s))
         THEN SplitFrom(Tail(s), <<>>, IF cur = <<>> THEN acc ELSE Append(acc, cur))
         ELSE SplitFrom(Tail(s), Append(cur, Head(s)), acc)
Split(s) == SplitFrom(s, <<>>, <<>>)

\* str.lower(), on the letters the model's files use.
LowerChar(c) ==
    CASE c = "I" -> "i" [] c = "N" -> "n" [] c = "P" -> "p" [] c = "U" -> "u"
      [] c = "T" -> "t" [] c = "S" -> "s" [] c = "Z" -> "z" [] c = "E" -> "e"
      [] c = "O" -> "o" [] OTHER -> c
Lower(s) == [i \in 1..Len(s) |-> LowerChar(s[i])]

AllDigits(s) == s # <<>> /\ \A i \in 1..Len(s) : IsDigit(s[i])

RECURSIVE NatOf(_)
NatOf(s) == IF s = <<>> THEN 0 ELSE 10 * NatOf(SubSeq(s, 1, Len(s) - 1)) + DigitVal(s[Len(s)])

HasSign(s) == s # <<>> /\ Head(s) \in {"-", "+"}
Unsigned(s) == IF HasSign(s) THEN Tail(s) ELSE s
SignOf(s) == IF s # <<>> /\ Head(s) = "-" THEN -1 ELSE 1

\* int(token): [ok |-> TRUE, val |-> n], or ok = FALSE where int() raises
\* ValueError.
IntOf(s) ==
    IF AllDigits(Unsigned(s))
    THEN [ok |-> TRUE, val |-> SignOf(s) * NatOf(Unsigned(s))]
    ELSE [ok |-> FALSE, val |-> 0]

DotAt(s) == IF \E i \in 1..Len(s) : s[i] = "." THEN CHOOSE i \in 1..Len(s) : s[i] = "." ELSE 0

\* The fraction digits of a decimal literal, in hundredths.
FracOf(f) ==
    IF f = <<>> THEN 0
    ELSE IF Len(f) = 1 THEN 10 * DigitVal(f[1])
    ELSE 10 * DigitVal(f[1]) + DigitVal(f[2])

\* float(text), in hundredths, for the decimal literals [sign] digits [. digits]
\* with at most two significant fraction digits; ok = FALSE where float()
\* raises ValueError.
FloatOf(s) ==
    LET u == Unsigned(s)
        d == DotAt(u)
        ip == IF d = 0 THEN u ELSE SubSeq(u, 1, d - 1)
        fp == IF d = 0 THEN <<>> ELSE SubSeq(u, d + 1, Len(u))
        wellFormed == /\ u # <<>>
                      /\ \A i \in 1..Len(ip) : IsDigit(ip[i])
                      /\ \A i \in 1..Len(fp) : IsDigit(fp[i])
                      /\ Len(ip) + Len(fp) > 0
                      /\ \A i \in 3..Len(fp) : fp[i] = "0"
    IN  IF wellFormed
        THEN [ok |-> TRUE, val |-> SignOf(s) * (100 * NatOf(ip) + FracOf(fp))]
        ELSE [ok |-> FALSE, val |-> 0]

\* The decimal digits of a natural number.
RECURSIVE NatText(_)
NatText(n) == IF n < 10 THEN <<Digits[n + 1]>> ELSE Append(NatText(n \div 10), Digits[(n % 10) + 1])

\* '{0}'.format(x) of a float x given in hundredths: the shortest decimal
\* that reads back as x, always with a fraction part ('2.0', '-0.5', '0.25').
FormatFloat(v) ==
    LET m == Abs(v)
        f == m % 100
        frac == IF f % 10 = 0 THEN <<Digits[(f \div 10) + 1]>>
                ELSE <<Digits[(f \div 10) + 1], Digits[(f % 10) + 1]>>
    IN  (IF v < 0 THEN <<"-">> ELSE <<>>) \o NatText(m \div 100) \o <<".">> \o frac

\* '{0}'.format(n) of an int.
FormatInt(n) == (IF n < 0 THEN <<"-">> ELSE <<>>) \o NatText(Abs(n))


(***************************************************************************)
(* Persistence: save (lines 44-60) and load (lines 62-100).                *)
(* A file is [exists, lines]; each line is the text readline() returns,    *)
(* its newline included.                                                   *)
(***************************************************************************)
Line(s) == Append(s, NL)
BlankLine == <<NL>>
File(ls) == [exists |-> TRUE, lines |-> ls]
NoSuchFile == [exists |-> FALSE, lines |-> <<>>]

\* The text save() writes for bias a, weights b and threshold th.
SaveText(a, b, th) ==
    <<Line(<<"I", "n", "p", "u", "t", " ", "s", "i", "z", "e", " ">> \o FormatInt(Len(b))),
      BlankLine>>
    \o [i \in 1..Len(b) |-> Line(FormatFloat(b[i]))]
    \o <<BlankLine, Line(FormatFloat(a)), BlankLine, Line(FormatFloat(th))>>

\* The local variables and the attributes of load() while it reads.
LoadStart(a0, b0, th0) ==
    [input_size |-> -1, ind |-> 0, a |-> a0, b |-> b0, th |-> th0,
     err |-> Ok, stage |-> "open"]

Raise(st, e, where) == [st EXCEPT !.err = e, !.stage = where]

Zeros(n) == [i \in 1..n |-> 0]

\* Lines 75-85: the header line.
LoadHeader(st, prepared_line) ==
    LET parts_of_line == Split(prepared_line)
        n == IntOf(parts_of_line[3])
    IN  IF Len(parts_of_line) # 3
        THEN Raise(st, CorruptFileError, "header")
        ELSE IF Lower(parts_of_line[1]) # <<"i", "n", "p", "u", "t">>
                \/ Lower(parts_of_line[2]) # <<"s", "i", "z", "e">>
        THEN Raise(st, CorruptFileError, "header")
        ELSE IF ~n.ok
        THEN Raise(st, ValueError, "header")
        ELSE IF n.val <= 0
        THEN Raise([st EXCEPT !.input_size = n.val], CorruptFileError, "header")
        ELSE [st EXCEPT !.input_size = n.val, !.b = Some(Zeros(n.val)),
                        !.a = Some(0), !.th = Some(50), !.stage = "params"]

\* One parameter line without the check of lines 87-88.
LoadParamUnchecked(st, prepared_line) ==
    LET x == FloatOf(prepared_line)
    IN  IF ~x.ok
        THEN Raise(st, ValueError, "params")
        ELSE IF st.ind < st.input_size
        THEN [st EXCEPT !.b = Some([Val(st.b) EXCEPT ![st.ind + 1] = x.val]),
                        !.ind = st.ind + 1]
        ELSE IF st.ind = st.input_size
        THEN [st EXCEPT !.a = Some(x.val), !.ind = st.ind + 1]
        ELSE IF x.val < 0 \/ x.val > 100
        THEN Raise([st EXCEPT !.th = Some(x.val)], CorruptFileError, "threshold")
        ELSE [st EXCEPT !.th = Some(x.val), !.ind = st.ind + 1]

\* Lines 87-97: one parameter line.
LoadParam(st, prepared_line) ==
    LET x == FloatOf(prepared_line)
    IN  IF st.ind > st.input_size + 1
        THEN Raise(st, CorruptFileError, "surplus")
        ELSE IF ~x.ok
        THEN Raise(st, ValueError, "params")
        ELSE IF st.ind < st.input_size
        THEN [st EXCEPT !.b = Some([Val(st.b) EXCEPT ![st.ind + 1] = x.val]),
                        !.ind = st.ind + 1]
        ELSE IF st.ind = st.input_size
        THEN [st EXCEPT !.a = Some(x.val), !.ind = st.ind + 1]
        ELSE IF x.val < 0 \/ x.val > 100
        THEN Raise([st EXCEPT !.th = Some(x.val)], CorruptFileError, "threshold")
        ELSE [st EXCEPT !.th = Some(x.val), !.ind = st.ind + 1]

\* Lines 72-97: the body of the while loop for one line of the file.
LoadLine(st, cur_line) ==
    LET prepared_line == Strip(cur_line)
    IN  IF Len(prepared_line) > 0
        THEN IF st.input_size <= 0
             THEN LoadHeader(st, prepared_line)
             ELSE LoadParam(st, prepared_line)
        ELSE st

\* Lines 99-100: the check after the last line.
LoadEnd(st) ==
    IF st.ind <= st.input_size + 1
    THEN Raise(st, CorruptFileError, "eof")
    ELSE [st EXCEPT !.stage = "done"]

\* Lines 69-100: the lines from the i-th on, then the final check.
RECURSIVE LoadFrom(_, _, _)
LoadFrom(st, lines, i) ==
    IF st.err # Ok THEN st
    ELSE IF i > Len(lines) THEN LoadEnd(st)
    ELSE LoadFrom(LoadLine(st, lines[i]), lines, i + 1)

\* load(file_name) on a classifier whose attributes are a0, b0, th0.
LoadResult(a0, b0, th0, file) ==
    IF ~file.exists
    THEN Raise(LoadStart(a0, b0, th0), "IOError", "open")
    ELSE LoadFrom(LoadStart(a0, b0, th0), file.lines, 1)

(***************************************************************************)
(* Arguments.  An array argument is [kind, shape, data]: kind is its       *)
(* Python type ("None", "ndarray", "spmatrix" or "list"), shape its        *)
(* .shape (ndim is the length of the shape), data its entries: the rows    *)
(* of a matrix, the elements of a vector.  Matrix entries are integers,    *)
(* labels are the floats 0.0 and 1.0, i.e. 0 and 100.                      *)
(***************************************************************************)
NoArray == [kind |-> "None", shape |-> <<>>, data |-> <<>>]
Matrix(kind, n, d, rows) == [kind |-> kind, shape |-> <<n, d>>, data |-> rows]
Vector(vals) == [kind |-> "ndarray", shape |-> <<Len(vals)>>, data |-> vals]
Ndim(X) == Len(X.shape)

(***************************************************************************)
(* Inference: transform (lines 102-118) and predict (lines 120-129).       *)
(***************************************************************************)
\* 100 * ln(k / (100 - k)) rounded up, for k = 1..99: sigmoid(z / 100) is at
\* least k / 100 exactly when z >= Logit[k].
Logit ==
    <<-459, -389, -347, -317, -294, -275, -258, -244, -231, -219, -209, -199,
      -190, -181, -173, -165, -158, -151, -145, -138, -132, -126, -120, -115,
      -109, -104, -99, -94, -89, -84, -80, -75, -70, -66, -61, -57, -53, -48,
      -44, -40, -36, -32, -28, -24, -20, -16, -12, -8, -4, 0, 5, 9, 13, 17,
      21, 25, 29, 33, 37, 41, 45, 49, 54, 58, 62, 67, 71, 76, 81, 85, 90, 95,
      100, 105, 110, 116, 121, 127, 133, 139, 146, 152, 159, 166, 174, 182,
      191, 200, 210, 220, 232, 245, 259, 276, 295, 318, 348, 390, 460>>

\* floor(100 / (1 + exp(-z / 100))): line 118 for one row, in hundredths
\* rounded down, which keeps every comparison with a candidate k / 100 exact.
Sigmoid(z) == Cardinality({k \in 1..Len(Logit) : z >= Logit[k]})

\* numpy dot of a row with the weights.
RECURSIVE Dot(_, _)
Dot(x, w) == IF x = <<>> THEN 0 ELSE Head(x) * Head(w) + Dot(Tail(x), Tail(w))

\* Line 118: the probabilities of the rows of X.
Probabilities(a, b, X) == [i \in 1..Len(X.data) |-> Sigmoid(Dot(X.data[i], b) + a)]

\* transform(X) with the two checks of lines 111-116 in the other order.
TransformInputFirst(a, b, X) ==
    IF X.kind = "None" \/ X.kind \notin {"ndarray", "spmatrix"} \/ Ndim(X) # 2
    THEN [err |-> InvalidInputError, ret |-> <<>>]
    ELSE IF IsNone(a) \/ IsNone(b)
    THEN [err |-> NotFittedError, ret |-> <<>>]
    ELSE IF X.shape[2] # Len(Val(b))
    THEN [err |-> InvalidInputError, ret |-> <<>>]
    ELSE [err |-> Ok, ret |-> Probabilities(Val(a), Val(b), X)]

\* transform(X): [err, ret].
TransformResult(a, b, X) ==
    IF IsNone(a) \/ IsNone(b)
    THEN [err |-> NotFittedError, ret |-> <<>>]
    ELSE IF X.kind = "None" \/ X.kind \notin {"ndarray", "spmatrix"}
            \/ Ndim(X) # 2 \/ X.shape[2] # Len(Val(b))
    THEN [err |-> InvalidInputError, ret |-> <<>>]
    ELSE [err |-> Ok, ret |-> Probabilities(Val(a), Val(b), X)]

\* Line 129 with > in the place of >=.
Above(y_real, t) == [i \in 1..Len(y_real) |-> IF y_real[i] > t THEN 100 ELSE 0]

\* Line 129: (probabilities >= th).astype(float).
AtLeast(y_real, t) == [i \in 1..Len(y_real) |-> IF y_real[i] >= t THEN 100 ELSE 0]

\* predict(X): [err, ret].  Comparing an array with a threshold that is
\* None raises TypeError on Python 3 and yields all True on Python 2.
PredictResult(a, b, th, X, py3) ==
    LET t == TransformResult(a, b, X)
    IN  IF t.err # Ok THEN t
        ELSE IF IsNone(th)
        THEN IF py3 THEN [err |-> TypeError, ret |-> <<>>]
             ELSE [err |-> Ok, ret |-> [i \in 1..Len(t.ret) |-> 100]]
        ELSE [err |-> Ok, ret |-> AtLeast(t.ret, Val(th))]

(***************************************************************************)
(* Threshold calibration: __calc_quality (lines 261-275) and               *)
(* __calc_best_th (lines 277-288).                                         *)
(***************************************************************************)
Count(S) == Cardinality(S)

\* __calc_quality(y_target, y_real)
CalcQuality(y_target, y_real) ==
    LET I == 1..Len(y_target)
    IN  [tp |-> Count({i \in I : y_target[i] > 0 /\ y_real[i] > 0}),
         fn |-> Count({i \in I : y_target[i] > 0 /\ ~(y_real[i] > 0)}),
         fp |-> Count({i \in I : ~(y_target[i] > 0) /\ y_real[i] > 0}),
         tn |-> Count({i \in I : ~(y_target[i] > 0) /\ ~(y_real[i] > 0)})]

\* Lines 282-283 divide by tp + fn and by tn + fp.
DividesByZero(quality) == quality.tp + quality.fn = 0 \/ quality.tn + quality.fp = 0

\* Line 284.  With tpr = tp / (tp + fn) and fpr = fp / (tn + fp),
\* dist * dist = DistNum / DistDen; the denominator is the same for every
\* candidate of one scan, so distances compare as their numerators do.
DistNum(quality) ==
    quality.fp * quality.fp * (quality.tp + quality.fn) * (quality.tp + quality.fn)
    + quality.fn * quality.fn * (quality.tn + quality.fp) * (quality.tn + quality.fp)
DistDen(quality) ==
    (quality.tp + quality.fn) * (quality.tp + quality.fn)
    * (quality.tn + quality.fp) * (quality.tn + quality.fp)

\* The 1.0 of line 279, over the denominator DistDen of the scan.
One(y_target) ==
    LET pos == Count({i \in 1..Len(y_target) : y_target[i] > 0})
        neg == Len(y_target) - pos
    IN  pos * pos * neg * neg

\* Line 285 with <= in the place of <.
CloserOrEqual(dist, min_dist) == dist <= min_dist

\* Line 285: dist < min_dist, both over the same denominator.
Closer(dist, min_dist) == dist < min_dist

\* Lines 281-287: the body of the loop for the candidate k / 100.
ScanStep(st, y_target, y_real, k) ==
    LET quality == CalcQuality(y_target, AtLeast(y_real, k))
        dist == DistNum(quality)
    IN  IF DividesByZero(quality)
        THEN [st EXCEPT !.err = ZeroDivisionError]
        ELSE IF Closer(dist, st.min_dist)
        THEN [st EXCEPT !.min_dist = dist, !.best_th = k]
        ELSE st

\* range(101) of line 280: the candidates are 0 / 100, ..., 100 / 100.
LastCandidate == 100

RECURSIVE ScanFrom(_, _, _, _)
ScanFrom(st, y_target, y_real, k) ==
    IF st.err # Ok \/ k > LastCandidate THEN st
    ELSE ScanFrom(ScanStep(st, y_target, y_real, k), y_target, y_real, k + 1)

\* __calc_best_th(y_target, y_real): [err, best_th, min_dist].
CalcBestTh(y_target, y_real) ==
    ScanFrom([err |-> Ok, best_th |-> 0, min_dist |-> One(y_target)],
             y_target, y_real, 0)

(***************************************************************************)
(* Training: fit (lines 131-188).                                          *)
(***************************************************************************)
\* Lines 150-152.
TrainDataWrong(X, y) ==
    \/ X.kind = "None"
    \/ y.kind = "None"
    \/ X.kind \notin {"ndarray", "spmatrix"}
    \/ Ndim(X) # 2
    \/ y.kind # "ndarray"
    \/ Ndim(y) # 1
    \/ X.shape[1] # y.shape[1]

\* Line 155.
TrainParamsWrong(eps, lr_max, max_iters) == eps <= 0 \/ lr_max <= 0 \/ max_iters < 1

\* fit with the check of line 155 moved behind the initialisation of
\* lines 159-160.
FitResultLateCheck(a0, b0, th0, in, a1, b1) ==
    IF TrainDataWrong(in.X, in.y)
    THEN [a |-> a0, b |-> b0, th |-> th0, err |-> InvalidTrainingDataError,
          stage |-> "validate", p |-> <<>>]
    ELSE IF TrainParamsWrong(in.eps, in.lr_max, in.max_iters)
    THEN [a |-> Some(a1), b |-> Some(b1), th |-> th0, err |-> InvalidHyperparameterError,
          stage |-> "validate", p |-> <<>>]
    ELSE LET t == TransformResult(Some(a1), Some(b1), in.X)
             c == CalcBestTh(in.y.data, t.ret)
         IN  IF c.err # Ok
             THEN [a |-> Some(a1), b |-> Some(b1), th |-> th0, err |-> c.err,
                   stage |-> "calibrate", p |-> t.ret]
             ELSE [a |-> Some(a1), b |-> Some(b1), th |-> Some(c.best_th),
                   err |-> Ok, stage |-> "done", p |-> t.ret]

\* fit(X, y, eps, lr_max, max_iters) on a classifier whose attributes are
\* a0, b0, th0.  a1 and b1 are the bias and the weights the gradient ascent
\* of lines 159-182 ends with: they start from random numbers (lines
\* 159-160), so every value is a possible outcome.
FitResult(a0, b0, th0, in, a1, b1) ==
    IF TrainDataWrong(in.X, in.y)
    THEN [a |-> a0, b |-> b0, th |-> th0, err |-> InvalidTrainingDataError,
          stage |-> "validate", p |-> <<>>]
    ELSE IF TrainParamsWrong(in.eps, in.lr_max, in.max_iters)
    THEN [a |-> a0, b |-> b0, th |-> th0, err |-> InvalidHyperparameterError,
          stage |-> "validate", p |-> <<>>]
    ELSE LET t == TransformResult(Some(a1), Some(b1), in.X)
             c == CalcBestTh(in.y.data, t.ret)
         IN  IF c.err # Ok
             THEN [a |-> Some(a1), b |-> Some(b1), th |-> th0, err |-> c.err,
                   stage |-> "calibrate", p |-> t.ret]
             ELSE [a |-> Some(a1), b |-> Some(b1), th |-> Some(c.best_th),
                   err |-> Ok, stage |-> "done", p |-> t.ret]

(***************************************************************************)
(* The classifier: its attributes __a, __b, __th (lines 40-42) and the     *)
(* last call made on it: op the method, arg its argument, err the          *)
(* exception it raised (Ok if none), stage the point it reached, out what  *)
(* it returned or wrote.  fresh holds as long as neither fit nor load has   *)
(* been called.                                                            *)
(***************************************************************************)
VARIABLES a, b, th, op, arg, err, stage, out, fresh

model == <<a, b, th>>
vars == <<a, b, th, op, arg, err, stage, out, fresh>>

\* Lines 36-42: the constructor.
Init ==
    /\ a = None
    /\ b = None
    /\ th = None
    /\ op = "new"
    /\ arg = <<>>
    /\ err = Ok
    /\ stage = "done"
    /\ out = <<>>
    /\ fresh = TRUE

\* ---- the inputs of the calls ----
Tuples(S, n) == [1..n -> S]
UpTo(S, n) == UNION {Tuples(S, k) : k \in 0..n}

Labels == {0, 100}
TrainVals == {-100, 100}

\* Arrays that are no 2-dimensional matrix, and arrays that are no
\* 1-dimensional ndarray.
NotMatrices ==
    {NoArray,
     [kind |-> "list", shape |-> <<2, 1>>, data |-> << <<0>>, <<1>> >>],
     [kind |-> "ndarray", shape |-> <<2>>, data |-> <<0, 1>>],
     [kind |-> "ndarray", shape |-> <<2, 1, 1>>, data |-> << << <<0>> >>, << <<1>> >> >>]}
NotVectors ==
    {NoArray,
     [kind |-> "list", shape |-> <<2>>, data |-> <<0, 100>>],
     [kind |-> "ndarray", shape |-> <<2, 1>>, data |-> << <<0>>, <<100>> >>]}

Column == Matrix("ndarray", 2, 1, << <<0>>, <<1>> >>)
SparseColumn == Matrix("spmatrix", 2, 1, << <<1>>, <<0>> >>)
NoColumns == Matrix("ndarray", 2, 0, << <<>>, <<>> >>)
NoRows == Matrix("ndarray", 0, 1, <<>>)
OneRow == Matrix("ndarray", 1, 2, << <<1, 1>> >>)
MinusOne == Matrix("ndarray", 1, 1, << <<-1>> >>)

\* eps, lr_max and max_iters: the valid choice, and one value out of range
\* at a time.  eps and lr_max are in hundredths.
GoodParams == [eps |-> 1, lr_max |-> 100, max_iters |-> 1000]
BadParams ==
    {[GoodParams EXCEPT !.eps = 0], [GoodParams EXCEPT !.eps = -1],
     [GoodParams EXCEPT !.lr_max = 0], [GoodParams EXCEPT !.lr_max = -100],
     [GoodParams EXCEPT !.max_iters = 0]}

FitArgs(X, y, h) ==
    [X |-> X, y |-> y, eps |-> h.eps, lr_max |-> h.lr_max, max_iters |-> h.max_iters]

\* The calls of fit: training sets of two samples with every labelling
\* (both classes, one class only), a matrix without columns; then each way
\* the data can be malformed and each parameter out of range, with
\* well-formed and with malformed data.
FitInputs ==
    {FitArgs(X, Vector(y), GoodParams) : X \in {Column, SparseColumn}, y \in Tuples(Labels, 2)}
    \cup {FitArgs(NoColumns, Vector(<<0, 100>>), GoodParams)}
    \cup {FitArgs(X, Vector(<<0, 100>>), GoodParams) : X \in NotMatrices \cup {NoRows}}
    \cup {FitArgs(Column, y, GoodParams) : y \in NotVectors \cup {Vector(<<100>>)}}
    \cup {FitArgs(X, Vector(<<0, 100>>), h) : X \in {Column, NoArray}, h \in BadParams}

TransformInputs == {Column, SparseColumn, NoColumns, OneRow, MinusOne} \cup NotMatrices

\* ---- the files load is called on ----
InputSize1 == Line(<<"I", "n", "p", "u", "t", " ", "s", "i", "z", "e", " ", "1">>)
InputSize2 == Line(<<" ", "i", "n", "p", "u", "t", " ", " ", "S", "I", "Z", "E", " ", "2", " ">>)
BadHeaderLines ==
    {Line(<<"I", "n", "p", "u", "t", " ", "s", "i", "z", "e">>),
     Line(<<"O", "u", "t", "p", "u", "t", " ", "s", "i", "z", "e", " ", "1">>),
     Line(<<"I", "n", "p", "u", "t", " ", "s", "i", "z", "e", " ", "0">>),
     Line(<<"I", "n", "p", "u", "t", " ", "s", "i", "z", "e", " ", "x">>)}
Half == Line(<<"0", ".", "5">>)
Two == Line(<<" ", "2", ".", "0", " ">>)
Junk == Line(<<"a", "b", "c">>)

\* No file, an empty file, a blank file, a file with a wrong header, and
\* the files of a header, a blank line and up to MaxLines lines of data.
Files ==
    {NoSuchFile, File(<<>>), File(<<BlankLine>>)}
    \cup {File(<<h>>) : h \in BadHeaderLines}
    \cup {File(<<InputSize1, BlankLine>> \o ds) : ds \in UpTo({Half, Two, Junk}, MaxLines)}
    \cup {File(<<InputSize2>> \o ds) : ds \in UpTo({Half, Junk}, MaxLines)}

\* ---- the calls ----
Cols(X) == IF Ndim(X) = 2 THEN X.shape[2] ELSE 0

\* fit(X, y, eps, lr_max, max_iters)
FitCall(in) ==
    \E a1 \in TrainVals, b1 \in Tuples(TrainVals, Cols(in.X)) :
        \E r \in {FitResult(a, b, th, in, a1, b1)} :
            /\ a' = r.a
            /\ b' = r.b
            /\ th' = r.th
            /\ op' = "fit"
            /\ arg' = in
            /\ err' = r.err
            /\ stage' = r.stage
            /\ out' = r.p
            /\ fresh' = FALSE

\* load(file_name), file_name naming the file `file`
LoadCall(file) ==
    \E r \in {LoadResult(a, b, th, file)} :
        /\ a' = r.a
        /\ b' = r.b
        /\ th' = r.th
        /\ op' = "load"
        /\ arg' = file
        /\ err' = r.err
        /\ stage' = r.stage
        /\ out' = <<>>
        /\ fresh' = FALSE

\* save(file_name): lines 49-51, then the writes of lines 53-60.
SaveResult(a0, b0, th0) ==
    IF IsNone(a0) \/ IsNone(b0) \/ IsNone(th0)
    THEN [err |-> NotFittedError, text |-> <<>>]
    ELSE [err |-> Ok, text |-> SaveText(Val(a0), Val(b0), Val(th0))]

Fit == \E in \in FitInputs : FitCall(in)

Load == \E file \in Files : LoadCall(file)

\* load of the file the preceding call, a save, has written
Reload == op = "save" /\ err = Ok /\ LoadCall(File(out))

Save ==
    \E r \in {SaveResult(a, b, th)} :
        /\ op' = "save"
        /\ arg' = <<>>
        /\ err' = r.err
        /\ stage' = "done"
        /\ out' = r.text
        /\ UNCHANGED <<model, fresh>>

Transform ==
    \E X \in TransformInputs :
        \E r \in {TransformResult(a, b, X)} :
            /\ op' = "transform"
            /\ arg' = X
            /\ err' = r.err
            /\ stage' = "done"
            /\ out' = r.ret
            /\ UNCHANGED <<model, fresh>>

Predict ==
    \E X \in TransformInputs, py3 \in BOOLEAN :
        \E r \in {PredictResult(a, b, th, X, py3)} :
            /\ op' = "predict"
            /\ arg' = X
            /\ err' = r.err
            /\ stage' = "done"
            /\ out' = r.ret
            /\ UNCHANGED <<model, fresh>>

Next == Fit \/ Load \/ Reload \/ Save \/ Transform \/ Predict

Spec == Init /\ [][Next]_vars

(***************************************************************************)
(* Properties of the classifier, checked under Spec.                       *)
(***************************************************************************)
Undefined == IsNone(a) /\ IsNone(b) /\ IsNone(th)
Defined == ~IsNone(a) /\ ~IsNone(b) /\ ~IsNone(th)

\* C1: between calls, bias, weights and threshold are all undefined or all
\* defined.
AllOrNone == Undefined \/ Defined

\* C2: a call of fit or load that fails leaves bias, weights and threshold
\* as they were before the call.
FailedCallKeepsModel ==
    [][(op' \in {"fit", "load"} /\ err' # Ok) => model' = model]_vars

\* C3: as long as neither fit nor load has been called, every call of
\* transform, predict and save fails with NotFittedError and the model
\* state stays undefined.
NotFittedBeforeTraining ==
    fresh => /\ Undefined
             /\ op \in {"transform", "predict", "save"} => err = NotFittedError

\* C3 witness: each of the three calls has failed on the new classifier.
NotFittedReached ==
    fresh /\ op = "predict" /\ err = NotFittedError /\ arg = Column

\* C4: a load of the file a successful save has just written succeeds and
\* leaves bias, weights and threshold as they were when saved.
RoundTrip ==
    [][(op = "save" /\ err = Ok /\ op' = "load" /\ arg' = File(out))
        => (err' = Ok /\ model' = model)]_vars

\* The labels of a fit call are all 1.0 or all 0.0.
OneClass(y) ==
    /\ Len(y) >= 1
    /\ \/ \A i \in 1..Len(y) : y[i] = 100
       \/ \A i \in 1..Len(y) : y[i] = 0

\* C6: a fit call with valid arguments whose labels are all 1.0 or all 0.0
\* completes and leaves a defined threshold.
OneClassFitCompletes ==
    (/\ op = "fit"
     /\ ~TrainDataWrong(arg.X, arg.y)
     /\ ~TrainParamsWrong(arg.eps, arg.lr_max, arg.max_iters)
     /\ OneClass(arg.y.data))
    => (err = Ok /\ ~IsNone(th))

\* C8: a threshold that is defined lies in [0, 1].
ThresholdInRange == ~IsNone(th) => (0 <= Val(th) /\ Val(th) <= 100)

\* The training data or the parameters of a fit call are as C9 lists them.
Malformed(in) ==
    \/ in.X.kind = "None"
    \/ in.y.kind = "None"
    \/ Ndim(in.X) # 2
    \/ Ndim(in.y) # 1
    \/ in.X.shape[1] # in.y.shape[1]
    \/ in.eps <= 0
    \/ in.lr_max <= 0
    \/ in.max_iters < 1

\* C9: a fit call with malformed training data or parameters out of range
\* fails in the validation, before the initialisation, and leaves bias,
\* weights and threshold as they were.
MalformedFitRejected ==
    [][(op' = "fit" /\ Malformed(arg'))
        => /\ err' \in {InvalidTrainingDataError, InvalidHyperparameterError}
           /\ stage' = "validate"
           /\ model' = model]_vars

\* C9 witness: a fit call with a parameter out of range has failed on a
\* classifier whose state was defined.
MalformedFitReached ==
    /\ op = "fit"
    /\ ~TrainDataWrong(arg.X, arg.y)
    /\ arg.max_iters < 1
    /\ err = InvalidHyperparameterError
    /\ Defined

\* The non-blank lines of a file, stripped.
RECURSIVE NonBlank(_)
NonBlank(lines) ==
    IF lines = <<>> THEN <<>>
    ELSE IF Strip(Head(lines)) = <<>> THEN NonBlank(Tail(lines))
    ELSE <<Strip(Head(lines))>> \o NonBlank(Tail(lines))

\* The d of a file whose first non-blank line is 'Input size d', d >= 1;
\* 0 for any other file.
HeaderSize(file) ==
    LET ls == NonBlank(file.lines)
        parts == Split(ls[1])
    IN  IF ls = <<>> \/ Len(parts) # 3 THEN 0
        ELSE IF Lower(parts[1]) = <<"i", "n", "p", "u", "t">>
                /\ Lower(parts[2]) = <<"s", "i", "z", "e">>
                /\ IntOf(parts[3]).ok /\ IntOf(parts[3]).val >= 1
        THEN IntOf(parts[3]).val
        ELSE 0

\* The file is empty or blank, or has a valid header and fewer than d + 2
\* non-blank lines after it.
Truncated(file) ==
    /\ file.exists
    /\ \/ NonBlank(file.lines) = <<>>
       \/ /\ HeaderSize(file) >= 1
          /\ Len(NonBlank(file.lines)) - 1 < HeaderSize(file) + 2

\* C10: a load of a file with a valid header and fewer than d + 2 lines
\* after it (or of an empty file) fails with CorruptFileError at the end
\* of the parsing.
TruncatedFileIsCorrupt ==
    (op = "load" /\ Truncated(arg)) => (err = CorruptFileError /\ stage = "eof")

\* X is a matrix transform accepts for weights of d entries (line 114).
ValidInput(X, d) ==
    X.kind \in {"ndarray", "spmatrix"} /\ Ndim(X) = 2 /\ X.shape[2] = d

\* C11: on a model whose bias, weights and threshold are defined, predict
\* of a valid input returns one entry per row, each 0.0 or 1.0, entry i
\* being 1.0 exactly when entry i of transform of the same input is at
\* least the threshold; and it leaves bias, weights and threshold as they
\* were.
PredictMatchesThreshold ==
    [][(op' = "predict" /\ Defined /\ ValidInput(arg', Len(Val(b))))
        => /\ err' = Ok
           /\ TransformResult(a, b, arg').err = Ok
           /\ Len(out') = arg'.shape[1]
           /\ \A i \in 1..Len(out') :
                /\ out'[i] \in {0, 100}
                /\ out'[i] = 100 <=> TransformResult(a, b, arg').ret[i] >= Val(th)
           /\ model' = model]_vars

\* C11 witness: predict has returned 1.0 for a row whose probability is
\* equal to the threshold.
PredictTieReached ==
    /\ op = "predict"
    /\ err = Ok
    /\ Defined
    /\ arg = MinusOne
    /\ TransformResult(a, b, arg).ret = <<Val(th)>>
    /\ out = <<100>>

(***************************************************************************)
(* __calc_best_th on its own: SpecCal draws the labels y_target and the    *)
(* probabilities y_real of up to MaxSamples samples and applies the        *)
(* function.  arg holds the two arguments, out the threshold returned.     *)
(* The probabilities are floor(100 * p) of p in [0, 1]; 0 and 100 are the  *)
(* values a float sigmoid saturates to.                                    *)
(***************************************************************************)
MaxSamples == 3

ProbVals == {0, 26, 73, 100}

CalInputs ==
    UNION {{[y_target |-> y, y_real |-> p] : y \in Tuples(Labels, n), p \in Tuples(ProbVals, n)} :
            n \in 0..MaxSamples}

InitCal ==
    /\ a = None
    /\ b = None
    /\ th = None
    /\ op = "__calc_best_th"
    /\ arg \in CalInputs
    /\ err = Ok
    /\ stage = "call"
    /\ out = <<>>
    /\ fresh = TRUE

Calibrate ==
    /\ op = "__calc_best_th"
    /\ stage = "call"
    /\ \E r \in {CalcBestTh(arg.y_target, arg.y_real)} :
        /\ err' = r.err
        /\ out' = IF r.err = Ok THEN <<r.best_th>> ELSE <<>>
    /\ stage' = "return"
    /\ UNCHANGED <<model, op, arg, fresh>>

SpecCal == InitCal /\ [][Calibrate]_vars

\* The square of the distance of candidate k / 100 from the ROC point (0, 1),
\* times the squares of the numbers of positive and of negative samples:
\* FPR = fp / neg, 1 - TPR = fn / pos.
Distance(y, p, k) ==
    LET I == 1..Len(y)
        pos == Cardinality({i \in I : y[i] = 100})
        neg == Cardinality({i \in I : y[i] = 0})
        fp == Cardinality({i \in I : y[i] = 0 /\ p[i] >= k})
        fn == Cardinality({i \in I : y[i] = 100 /\ p[i] < k})
    IN  fp * fp * pos * pos + fn * fn * neg * neg

\* C5: the threshold the calibration returns is a candidate of minimal
\* distance among the 101 candidates, and the smallest such candidate.
ThresholdIsFirstMinimum ==
    (op = "__calc_best_th" /\ stage = "return" /\ err = Ok)
    => /\ out[1] \in 0..100
       /\ \A k \in 0..100 :
            /\ Distance(arg.y_target, arg.y_real, out[1])
                    <= Distance(arg.y_target, arg.y_real, k)
            /\ Distance(arg.y_target, arg.y_real, k)
                    = Distance(arg.y_target, arg.y_real, out[1]) => out[1] <= k

\* C5 witness: the calibration has returned a threshold above 0.00 whose
\* distance is not 0 and which a larger candidate ties with.
TiedMinimumReached ==
    /\ op = "__calc_best_th" /\ stage = "return" /\ err = Ok
    /\ out[1] > 0
    /\ Distance(arg.y_target, arg.y_real, out[1]) > 0
    /\ \E k \in 0..100 :
        /\ k > out[1]
        /\ Distance(arg.y_target, arg.y_real, k)
                = Distance(arg.y_target, arg.y_real, out[1])

(***************************************************************************)
(* __find_best_lr (lines 226-259) on its own: SpecLR draws lr_max and the  *)
(* objective and runs the search step by step.  Learning rates are         *)
(* fixed-point integers counted in millionths.  The objective, the         *)
(* log-likelihood along the gradient, is concave; it is given by the       *)
(* learning rate `peak` it is maximal at and decreases with the distance   *)
(* from it.  arg holds lr_max and peak, out the local variables and the    *)
(* value returned (ret, None until the return).                            *)
(***************************************************************************)
\* x / theta, theta = (1 + sqrt(5)) / 2 of line 244, rounded to the nearest
\* integer as a float operation rounds to the nearest float: 610 / 987 is
\* the quotient of two Fibonacci numbers next to 1 / theta.
DivTheta(x) == (x * 610 + 493) \div 987

\* Line 245: eps = 0.00001 * (lr_max - lr_min), rounded to the nearest
\* integer.
Tolerance(width) == (width + 50000) \div 100000

\* Lines 249-251: y1 <= y2.
NotAbove(lr1, lr2, peak) == Abs(lr1 - peak) >= Abs(lr2 - peak)

\* Lines 243-247.
SearchStart(lr_max) ==
    [lr_min |-> 0, lr_max |-> lr_max, eps |-> Tolerance(lr_max - 0),
     lr1 |-> lr_max - DivTheta(lr_max - 0), lr2 |-> 0 + DivTheta(lr_max - 0),
     ret |-> None]

\* Line 248.
Searching(l) == Abs(l.lr_min - l.lr_max) >= l.eps

\* Lines 249-258: one pass of the loop.
Narrow(l, peak) ==
    IF NotAbove(l.lr1, l.lr2, peak)
    THEN [l EXCEPT !.lr_min = l.lr1,
                   !.lr1 = l.lr2,
                   !.lr2 = l.lr1 + DivTheta(l.lr_max - l.lr1)]
    ELSE [l EXCEPT !.lr_max = l.lr2,
                   !.lr2 = l.lr1,
                   !.lr1 = l.lr2 - DivTheta(l.lr2 - l.lr_min)]

\* Line 259.
Returned(l) == (l.lr_max - l.lr_min) \div 2

LRInputs ==
    {[lr_max |-> m, peak |-> q] :
        m \in {500000, 1000000, 2000000},
        q \in {0, 123456, 381966, 700000, 3000000}}

InitLR ==
    /\ a = None
    /\ b = None
    /\ th = None
    /\ op = "__find_best_lr"
    /\ arg \in LRInputs
    /\ err = Ok
    /\ stage = "loop"
    /\ out = SearchStart(arg.lr_max)
    /\ fresh = TRUE

SearchStep ==
    /\ op = "__find_best_lr"
    /\ stage = "loop"
    /\ Searching(out)
    /\ out' = Narrow(out, arg.peak)
    /\ UNCHANGED <<model, op, arg, err, stage, fresh>>

SearchReturn ==
    /\ op = "__find_best_lr"
    /\ stage = "loop"
    /\ ~Searching(out)
    /\ out' = [out EXCEPT !.ret = Some(Returned(out))]
    /\ stage' = "return"
    /\ UNCHANGED <<model, op, arg, err, fresh>>

SpecLR == InitLR /\ [][SearchStep \/ SearchReturn]_vars

\* C7: the search returns once its bracket is narrower than 1e-5 * lr_max,
\* and returns the midpoint of that bracket.
SearchReturnsMidpoint ==
    (op = "__find_best_lr" /\ stage = "return")
    => /\ out.lr_max - out.lr_min < Tolerance(arg.lr_max)
       /\ Val(out.ret) = (out.lr_min + out.lr_max) \div 2

(***************************************************************************)
(* load (lines 62-100) line by line: SpecLoad draws a file with a valid    *)
(* header and up to MaxData lines after it (numbers, a number out of the   *)
(* range of a threshold, text that is no number, blank lines) and reads    *)
(* it on a new classifier, one readline() per step.  arg holds the file,   *)
(* out the local variables input_size and ind and the number pos of lines  *)
(* read so far; a, b, th are the attributes load assigns as it reads.      *)
(***************************************************************************)
MaxData == 5

LoadFiles ==
    {File(<<h>> \o ds) : h \in {InputSize1, InputSize2},
                         ds \in UpTo({Half, Two, Junk, BlankLine}, MaxData)}

\* The state of load, as LoadLine and LoadEnd take it.
LoadState ==
    [input_size |-> out.input_size, ind |-> out.ind, a |-> a, b |-> b, th |-> th,
     err |-> err, stage |-> stage]

\* Lines 67-70.
InitLoad ==
    /\ a = None
    /\ b = None
    /\ th = None
    /\ op = "load"
    /\ arg \in LoadFiles
    /\ err = Ok
    /\ stage = "open"
    /\ out = [input_size |-> -1, ind |-> 0, pos |-> 0]
    /\ fresh = FALSE

Reading == op = "load" /\ err = Ok /\ stage # "done"

\* Lines 71-98: one pass of the while loop, on the line readline() returned.
ReadLine ==
    /\ Reading
    /\ out.pos < Len(arg.lines)
    /\ \E r \in {LoadLine(LoadState, arg.lines[out.pos + 1])} :
        /\ a' = r.a
        /\ b' = r.b
        /\ th' = r.th
        /\ err' = r.err
        /\ stage' = r.stage
        /\ out' = [input_size |-> r.input_size, ind |-> r.ind, pos |-> out.pos + 1]
    /\ UNCHANGED <<op, arg, fresh>>

\* Lines 71, 99-100: readline() returns '' and the loop ends.
ReadEnd ==
    /\ Reading
    /\ out.pos = Len(arg.lines)
    /\ \E r \in {LoadEnd(LoadState)} :
        /\ err' = r.err
        /\ stage' = r.stage
    /\ UNCHANGED <<model, op, arg, out, fresh>>

SpecLoad == InitLoad /\ [][ReadLine \/ ReadEnd]_vars

\* The number of non-blank lines after the header: in the file, and among
\* the lines read so far.
DataLines(file) == Len(NonBlank(file.lines)) - 1
DataLinesRead == Len(NonBlank(SubSeq(arg.lines, 1, out.pos))) - 1

\* The file has a valid header 'Input size d' and more than d + 2 non-blank
\* lines after it.
Surplus(file) == HeaderSize(file) >= 1 /\ DataLines(file) > HeaderSize(file) + 2

\* C13 as stated: a load of a file with more than d + 2 non-blank lines
\* after a valid header fails, and fails on reading the (d + 3)-th of them;
\* a load that succeeds has read exactly d + 2 of them.
SurplusFailsAtNextLine ==
    /\ Surplus(arg)
        => /\ stage # "done"
           /\ DataLinesRead >= HeaderSize(arg) + 3 => err # Ok
           /\ err # Ok => DataLinesRead = HeaderSize(arg) + 3
    /\ (HeaderSize(arg) >= 1 /\ stage = "done") => DataLines(arg) = HeaderSize(arg) + 2

\* C13, amended: a load of a file with more than d + 2 non-blank lines
\* after a valid header fails: on reading the (d + 3)-th of them, with
\* CorruptFileError, or on reading an earlier one that is no number or that
\* is a threshold out of [0, 1]; a load that succeeds has read exactly
\* d + 2 of them.
SurplusFailsByNextLine ==
    /\ Surplus(arg)
        => /\ stage # "done"
           /\ DataLinesRead >= HeaderSize(arg) + 3 => err # Ok
           /\ err # Ok
                => \/ /\ DataLinesRead = HeaderSize(arg) + 3
                      /\ err = CorruptFileError
                      /\ stage = "surplus"
                   \/ /\ DataLinesRead \in 1..(HeaderSize(arg) + 2)
                      /\ ~FloatOf(Strip(arg.lines[out.pos])).ok
                   \/ /\ DataLinesRead = HeaderSize(arg) + 2
                      /\ FloatOf(Strip(arg.lines[out.pos])).ok
                      /\ FloatOf(Strip(arg.lines[out.pos])).val \notin 0..100
    /\ (HeaderSize(arg) >= 1 /\ stage = "done") => DataLines(arg) = HeaderSize(arg) + 2

\* C13 witness: load has failed on the fourth of four non-blank lines after
\* the header 'Input size 1', the three before it being parameters in range
\* and a blank line lying among the lines read.
SurplusReached ==
    /\ op = "load"
    /\ HeaderSize(arg) = 1
    /\ DataLines(arg) = 4
    /\ DataLinesRead = 4
    /\ out.pos = 6
    /\ out.ind = 3
    /\ err = CorruptFileError
    /\ stage = "surplus"

(***************************************************************************)
(* The training loop of fit (lines 161-182) step by step, the line         *)
(* searches of __find_best_lr within it: SpecFit starts where the          *)
(* validation has passed and lines 159-163 have run, and ends where the    *)
(* while loop of line 164 is left.  arg holds lr_max and max_iters, out    *)
(* the local variables of the loop, `search` those of the line search in   *)
(* progress, and the number `updates` of passes through lines 167-168.     *)
(*                                                                         *)
(* Learning rates are integers counted in the unit arg.unit.               *)
(*  - "1e-6": an lr_max in the normal range of the floats, on a grid of    *)
(*    millionths.  The log-likelihood is not computed: along the gradient  *)
(*    it is concave and given by the learning rate `peak` it is maximal    *)
(*    at; the test of line 173 takes either outcome.                       *)
(*  - "2^-1074": an lr_max below 2^-1022.  There the floats are the        *)
(*    multiples of 2^-1074, the smallest positive float, and a float       *)
(*    operation gives the multiple nearest to the exact result, which is   *)
(*    what DivTheta and Tolerance compute: the model's arithmetic is the   *)
(*    code's.  Parameters moved by such a learning rate round to the       *)
(*    floats they were, so y1 = y2 at line 249, the case of a peak at      *)
(*    lr_max, and f_new = f_old at line 173.                               *)
(* The bias and the weights of lines 167-168 take any of TrainVals.        *)
(***************************************************************************)
MaxIters == 3

\* lr_max = 0.5 and 1.0; and lr_max = 3 * 2^-1074 = 1.5e-323.
FitLoopInputs ==
    {[lr_max |-> m, unit |-> "1e-6", max_iters |-> n] :
        m \in {500000, 1000000}, n \in 1..MaxIters}
    \cup {[lr_max |-> 3, unit |-> "2^-1074", max_iters |-> n] : n \in 1..MaxIters}

\* The objectives of a line search, and the outcomes of
\* (f_new - f_old) < eps at line 173.
Peaks(in) == IF in.unit = "2^-1074" THEN {in.lr_max} ELSE {0, in.lr_max}
Outcomes(in) == IF in.unit = "2^-1074" THEN {TRUE} ELSE BOOLEAN

\* Lines 161-163, and line 166 up to the loop of line 248.
LoopStart(lr_max, peak) ==
    [search |-> SearchStart(lr_max), peak |-> peak, stop |-> FALSE,
     iterations_number |-> 1, small |-> FALSE, updates |-> 0]

\* Lines 167-180: small is the outcome of (f_new - f_old) < eps.
LoopTest(l, small, max_iters) ==
    IF small
    THEN [l EXCEPT !.updates = l.updates + 1, !.small = TRUE, !.stop = TRUE]
    ELSE [l EXCEPT !.updates = l.updates + 1, !.small = FALSE,
                   !.iterations_number = l.iterations_number + 1,
                   !.stop = (l.iterations_number + 1 >= max_iters)]

InitFit ==
    /\ a \in {Some(a1) : a1 \in TrainVals}
    /\ b \in {Some(<<b1>>) : b1 \in TrainVals}
    /\ th = None
    /\ op = "fit"
    /\ arg \in FitLoopInputs
    /\ err = Ok
    /\ stage = "search"
    /\ out \in {LoopStart(arg.lr_max, q) : q \in Peaks(arg)}
    /\ fresh = FALSE

\* Line 248 within the call of line 166: the test of the while loop holds
\* and the loop body is entered.
FitSearchTest ==
    /\ op = "fit"
    /\ stage = "search"
    /\ Searching(out.search)
    /\ stage' = "reduce"
    /\ UNCHANGED <<model, op, arg, err, out, fresh>>

\* Lines 249-258: the loop body, and back to the test of line 248.
FitSearchStep ==
    /\ op = "fit"
    /\ stage = "reduce"
    /\ out' = [out EXCEPT !.search = Narrow(out.search, out.peak)]
    /\ stage' = "search"
    /\ UNCHANGED <<model, op, arg, err, fresh>>

\* Lines 248, 259: the test fails and the line search returns.
FitSearchReturn ==
    /\ op = "fit"
    /\ stage = "search"
    /\ ~Searching(out.search)
    /\ out' = [out EXCEPT !.search.ret = Some(Returned(out.search))]
    /\ stage' = "update"
    /\ UNCHANGED <<model, op, arg, err, fresh>>

\* Lines 167-182, and the next pass up to the loop of line 248 if the
\* while loop goes on.
FitUpdate ==
    /\ op = "fit"
    /\ stage = "update"
    /\ \E a1 \in TrainVals, b1 \in TrainVals, small \in Outcomes(arg), q \in Peaks(arg) :
        \E r \in {LoopTest(out, small, arg.max_iters)} :
            /\ a' = Some(a1)
            /\ b' = Some(<<b1>>)
            /\ stage' = IF r.stop THEN "stopped" ELSE "search"
            /\ out' = IF r.stop THEN r
                      ELSE [r EXCEPT !.search = SearchStart(arg.lr_max), !.peak = q]
    /\ UNCHANGED <<th, op, arg, err, fresh>>

NextFit == FitSearchTest \/ FitSearchStep \/ FitSearchReturn \/ FitUpdate

\* A call that is running keeps running: the interpreter executes the next
\* statement.
SpecFit == InitFit /\ [][NextFit]_vars /\ WF_vars(NextFit)

\* The loop has made at least one and at most max_iters updates.
UpdatesBounded ==
    /\ out.updates <= arg.max_iters
    /\ stage = "stopped" => out.updates >= 1

\* The loop stops after an update exactly when the improvement of that
\* update is below eps or the iteration count has reached max_iters.
StopsAtFirst ==
    stage = "update"
        => (stage' = "stopped" <=> (out'.small \/ out'.iterations_number >= arg.max_iters))

\* C12: the training loop terminates: each line search ends, the loop
\* makes at least one and at most max_iters updates, and it stops right
\* after the first update whose improvement is below eps or when the
\* iteration count reaches max_iters.
TrainingLoopTerminates ==
    /\ []UpdatesBounded
    /\ [][StopsAtFirst]_vars
    /\ (stage \in {"search", "reduce"}) ~> (stage = "update")
    /\ <>(stage = "stopped")

====
